---- MODULE Spec2Model ----
(***************************************************************************)
(* wavrider: decoder.Decode and decoder.processSamples                     *)
(* (src/internal/decoder/decoder.go).                                      *)
(*                                                                         *)
(* Decode turns the data region of a WAV file into a stream of samples,    *)
(* processSamples finds the zero crossings of that stream and runs the     *)
(* demodulator over the intervals between consecutive crossings.           *)
(*                                                                         *)
(* Numbers.  A sample is the float64 (raw-128)/128 or raw/32768; both are  *)
(* exact in float64, and the model keeps the numerator over 32768.  A      *)
(* duration is float64(n)/float64(sampleRate) seconds for a positive       *)
(* sample count n, compared with the constants 0.000350 and 0.000600.      *)
(* Division and the conversion of a constant both round to nearest, and    *)
(* for the rates and counts of the model n/sampleRate is either equal to   *)
(* the threshold as a rational or further from it than float64 resolves,   *)
(* so the comparison of the floats is the comparison of the rationals:     *)
(*   n/sampleRate < T/1000000   iff   n * 1000000 < T * sampleRate.        *)
(* Indices are Go's (0-based): At(s, k) is s[k].                           *)
(***************************************************************************)
EXTENDS Integers, Sequences, FiniteSets, TLC

VARIABLES
  header,        \* WavHeader: BitsPerSample, NumChannels, SampleRate
  data,          \* the values of the data region, in file order
  pos,           \* file offset, in values, of the next read
  samples,       \* []float64, as numerators over 32768
  err,           \* Decode's error: "none" or "unsupported"
  result,        \* the byte sequence Decode returns
  pc,            \* position in the code
  k,             \* range index of the zero-crossing loop
  prevSample,
  crossings,
  state,
  decodedBytes,
  currentByte,
  bitCount,
  headerCount,
  i,             \* cursor of the demodulation loops
  run,           \* which call of processSamples this is: 1 or 2
  earlier        \* what the first call returned, once a second has begun

vars == <<header, data, pos, samples, err, result, pc, k, prevSample,
          crossings, state, decodedBytes, currentByte, bitCount,
          headerCount, i, run, earlier>>

(***************************************************************************)
(* Program constants                                                       *)
(***************************************************************************)
BufLen == 1024
ShortThreshold == 350
LongThreshold == 600
HeaderThreshold == 50
FirstPassThreshold == 100
ByteBits == 8

StateFindHeader == 0
StateFindSync == 1
StateReadData == 2

(***************************************************************************)
(* Bounds of the checked inputs                                            *)
(***************************************************************************)
MaxSmall == 4       \* longest free-form data region
MaxData == 18       \* most data intervals kept after a header run
MaxPost == 2        \* most free-form intervals appended to a tape
MaxPartial == 2     \* most bits read before a separator pair
MaxHalf == 64       \* longest half-period looked for in a sample stream

(***************************************************************************)
(* Helpers                                                                 *)
(***************************************************************************)
At(s, idx) == s[idx + 1]
InBounds(s, idx) == 0 <= idx /\ idx < Len(s)
Min(a, b) == IF a < b THEN a ELSE b
Rep(x, n) == [j \in 1..n |-> x]
CeilDiv(a, b) == (a + b - 1) \div b

\* durationSec < threshold, for a duration of n samples (see the header note)
DurLt(n, threshold) == n * 1000000 < threshold * header.SampleRate
DurGt(n, threshold) == n * 1000000 > threshold * header.SampleRate
DurGe(n, threshold) == ~DurLt(n, threshold)

(***************************************************************************)
(* Inputs: WAV files.  A tape is a list of half-cycle lengths in samples;  *)
(* its recording is an 8-bit mono square wave with one crossing between    *)
(* consecutive half-cycles, one lead-in sample and one closing sample.     *)
(***************************************************************************)
\* the two levels of the wave: the highest and the lowest 8-bit value
Level(up) == IF up THEN 255 ELSE 0

\* n half-cycles of d samples each, the first at level `up`
Tone(d, n, up) ==
  [s \in 1..(d * n) |-> Level((((s - 1) \div d) % 2 = 0) = up)]

RECURSIVE Wave(_, _)
Wave(tape, up) ==
  IF tape = <<>> THEN <<Level(up)>>
  ELSE Rep(Level(up), Head(tape)) \o Wave(Tail(tape), ~up)

\* header run of n half-cycles of d samples, then the half-cycles of tail
Recording(d, n, tail) ==
  <<Level(TRUE)>> \o Tone(d, n, FALSE) \o Wave(tail, (n % 2 = 1))

Bit(b, j) == (b \div (2 ^ j)) % 2

\* the 16 half-cycles of byte b, most significant bit first
BitPairs(b, one, zero) ==
  [j \in 1..(2 * ByteBits) |->
     IF Bit(b, ByteBits - ((j + 1) \div 2)) = 1 THEN one ELSE zero]

RECURSIVE SeqsUpTo(_, _)
SeqsUpTo(S, n) ==
  IF n = 0 THEN {<<>>}
  ELSE LET shorter == SeqsUpTo(S, n - 1)
       IN  shorter \cup {Append(t, x) : t \in shorter, x \in S}

Prefix(s, n) == SubSeq(s, 1, Min(n, Len(s)))

File(bits, chans, rate, d) ==
  [hdr |-> [BitsPerSample |-> bits, NumChannels |-> chans, SampleRate |-> rate],
   dat |-> d]

\* free-form data regions, every supported and one unsupported width
SmallFiles ==
  {File(bits, chans, 20000, d) :
     bits \in {8, 16, 24}, chans \in {1, 2},
     d \in SeqsUpTo({0, 128, 255}, MaxSmall)}

\* 16-bit square waves around the length of one read block
BlockFiles ==
  {File(16, chans, 5000, [s \in 1..len |->
                             IF ((s - 1) \div half) % 2 = 0 THEN 1000 ELSE -1000]) :
     chans \in {1, 2}, half \in {32, 64}, len \in {BufLen - 1, BufLen, BufLen + 1}}

\* at 5000 Hz: 1 sample = 200 us, 2 = 400 us, 3 = 600 us, 4 = 800 us
Durs5k == {1, 2, 3, 4}

\* every byte after a 51-interval header and a sync pair
ByteFiles ==
  {File(8, 1, 5000, Recording(2, HeaderThreshold + 1, <<1, 1>> \o BitPairs(b, 2, 1))) :
     b \in 0..255}

\* at 20000 Hz: 6 samples = 300 us, 7 = 350 us, 8 = 400 us, 11 = 550 us,
\* 12 = 600 us, 13 = 650 us
BoundaryFiles ==
  {File(8, 1, 20000, Recording(d, n, <<6, 6>> \o BitPairs(b, one, 6))) :
     d \in {7, 8, 13}, n \in {HeaderThreshold + 1, 60}, b \in {178}, one \in {7, 11}}

\* header runs around the threshold, a truncated byte, free-form intervals
TruncatedFiles ==
  {File(8, 1, 5000,
        Recording(d, n, Prefix(<<1, 1>> \o BitPairs(178, 2, 1) \o BitPairs(77, 2, 1), m) \o post)) :
     d \in {2}, n \in {HeaderThreshold + 1}, m \in 0..(2 + MaxData),
     post \in SeqsUpTo(Durs5k, MaxPost)}

ThresholdFiles ==
  {File(8, 1, 5000, Recording(d, n, <<1>> \o post)) :
     d \in {2, 3, 4}, n \in {2, HeaderThreshold - 1, HeaderThreshold, HeaderThreshold + 1},
     post \in SeqsUpTo(Durs5k, MaxPost)}

\* a partial byte, a separator pair, then a second header, sync and byte
TwoBlockFiles ==
  {File(8, 1, 5000,
        Recording(2, HeaderThreshold + 1,
                  <<1, 1>> \o Prefix(BitPairs(255, 2, 1), 2 * m) \o sep
                  \o Rep(2, HeaderThreshold + 1) \o <<1, 1>> \o BitPairs(b, 2, 1))) :
     m \in 1..MaxPartial, sep \in {<<4, 4>>, <<3, 3>>, <<1, 4>>, <<3, 2>>, <<1, 2>>},
     b \in {0, 178}}

\* header runs of Long half-cycles around the threshold of the first loop
LongHeaderFiles ==
  {File(8, 1, 5000, Recording(d, n, tail)) :
     d \in {3, 4}, n \in {FirstPassThreshold, FirstPassThreshold + 1},
     tail \in {<<1>>, <<1, 2>>, <<1, 1, 4, 4>>, <<1, 1>> \o BitPairs(178, 2, 1)}}

\* interleaved frames longer than one read buffer: channel 0 above zero,
\* every other channel below
MultiChannelFiles ==
  {File(bits, chans, 5000,
        [s \in 1..len |->
           IF (s - 1) % chans = 0
           THEN (IF bits = 8 THEN 200 ELSE 1000)
           ELSE (IF bits = 8 THEN 50 ELSE -1000)]) :
     bits \in {8, 16}, chans \in {2, 3}, len \in {BufLen + 2, 2 * BufLen + 1}}

Files ==
  SmallFiles \cup BlockFiles \cup ByteFiles \cup BoundaryFiles
  \cup TruncatedFiles \cup ThresholdFiles \cup TwoBlockFiles
  \cup LongHeaderFiles \cup MultiChannelFiles

(***************************************************************************)
(* Initial state: Decode has found the data chunk (line 66)                *)
(***************************************************************************)
InitWith(files) ==
  /\ \E f \in files : header = f.hdr /\ data = f.dat
  /\ run = 1
  /\ earlier = <<>>
  /\ pos = 0
  /\ samples = <<>>
  /\ err = "none"
  /\ result = <<>>
  /\ pc = "Decode"
  /\ k = 0
  /\ prevSample = 0
  /\ crossings = <<>>
  /\ state = StateFindHeader
  /\ decodedBytes = <<>>
  /\ currentByte = 0
  /\ bitCount = 0
  /\ headerCount = 0
  /\ i = 0

Init == InitWith(Files)

(***************************************************************************)
(* Decode, lines 68-115                                                    *)
(***************************************************************************)
\* sample := (float64(buf[i]) - 128.0) / 128.0, as a numerator over 32768
Norm8(raw) == (raw - 128) * 256
\* sample := float64(buf[i]) / 32768.0
Norm16(raw) == raw

\* for i := 0; i < n; i += NumChannels { append(samples, norm(buf[i])) }
\* over the n values read at offset pos
FirstOfEachFrame8(n) ==
  [j \in 1..CeilDiv(n, header.NumChannels) |->
     Norm8(data[pos + (j - 1) * header.NumChannels + 1])]
FirstOfEachFrame16(n) ==
  [j \in 1..CeilDiv(n, header.NumChannels) |->
     Norm16(data[pos + (j - 1) * header.NumChannels + 1])]

Unread == Len(data) - pos

\* the dispatch on header.BitsPerSample (lines 73, 89, 107)
DecodeFormat ==
  /\ pc = "Decode"
  /\ header.BitsPerSample \in {8, 16}
  /\ pc' = IF header.BitsPerSample = 8 THEN "read8" ELSE "read16"
  /\ UNCHANGED <<run, earlier, header, data, pos, samples, err, result, k, prevSample,
                 crossings, state, decodedBytes, currentByte, bitCount,
                 headerCount, i>>

\* the width check without its return: decoding goes on with no samples
DecodeUnsupportedFallsThrough ==
  /\ pc = "Decode"
  /\ header.BitsPerSample \notin {8, 16}
  /\ err' = "unsupported"
  /\ pc' = "processSamples"
  /\ UNCHANGED <<run, earlier, header, data, pos, samples, result, k, prevSample, crossings,
                 state, decodedBytes, currentByte, bitCount, headerCount, i>>

\* return nil, fmt.Errorf("unsupported bits per sample: %d", ...)
DecodeUnsupported ==
  /\ pc = "Decode"
  /\ header.BitsPerSample \notin {8, 16}
  /\ err' = "unsupported"
  /\ result' = <<>>
  /\ pc' = "error"
  /\ UNCHANGED <<run, earlier, header, data, pos, samples, k, prevSample, crossings, state,
                 decodedBytes, currentByte, bitCount, headerCount, i>>

\* one iteration of the 8-bit read loop (lines 76-88): f.Read fills the
\* buffer with what is left of the file, up to its length; at the end of
\* the file it returns 0 and io.EOF
Read8 ==
  /\ pc = "read8"
  /\ LET n == Min(BufLen, Unread)
     IN  IF n > 0
         THEN /\ samples' = samples \o FirstOfEachFrame8(n)
              /\ pos' = pos + n
              /\ pc' = "read8"
         ELSE /\ pc' = "processSamples"
              /\ UNCHANGED <<samples, pos>>
  /\ UNCHANGED <<run, earlier, header, data, err, result, k, prevSample, crossings, state,
                 decodedBytes, currentByte, bitCount, headerCount, i>>

\* one iteration of the 16-bit read loop (lines 93-106): binary.Read fills
\* all BufLen values or fails, and a failed read ends the loop
Read16 ==
  /\ pc = "read16"
  /\ IF Unread >= BufLen
     THEN /\ samples' = samples \o FirstOfEachFrame16(BufLen)
          /\ pos' = pos + BufLen
          /\ pc' = "read16"
     ELSE /\ pos' = Len(data)
          /\ pc' = "processSamples"
          /\ UNCHANGED samples
  /\ UNCHANGED <<run, earlier, header, data, err, result, k, prevSample, crossings, state,
                 decodedBytes, currentByte, bitCount, headerCount, i>>

(***************************************************************************)
(* processSamples: zero crossings, lines 117-126                           *)
(***************************************************************************)
\* var crossings []int; prevSample := samples[0]
ProcessSamplesEntry ==
  /\ pc = "processSamples"
  /\ IF InBounds(samples, 0)
     THEN /\ prevSample' = At(samples, 0)
          /\ pc' = "crossings"
     ELSE /\ pc' = "panic"      \* index out of range [0] with length 0
          /\ UNCHANGED prevSample
  /\ crossings' = <<>>
  /\ k' = 0
  /\ UNCHANGED <<run, earlier, header, data, pos, samples, err, result, state, decodedBytes,
                 currentByte, bitCount, headerCount, i>>

\* zero counted as negative
SignChangeZeroNegative(prev, sample) ==
  (prev <= 0 /\ sample > 0) \/ (prev > 0 /\ sample <= 0)

SignChange(prev, sample) ==
  (prev < 0 /\ sample >= 0) \/ (prev >= 0 /\ sample < 0)

\* one iteration of: for i, sample := range samples
CrossingStep ==
  /\ pc = "crossings"
  /\ k < Len(samples)
  /\ LET sample == At(samples, k)
     IN  /\ crossings' = IF SignChange(prevSample, sample)
                         THEN Append(crossings, k) ELSE crossings
         /\ prevSample' = sample
  /\ k' = k + 1
  /\ UNCHANGED <<run, earlier, header, data, pos, samples, err, result, pc, state,
                 decodedBytes, currentByte, bitCount, headerCount, i>>

(***************************************************************************)
(* processSamples: declarations and the abandoned loop, lines 128-210      *)
(***************************************************************************)
\* decodedBytes kept across calls, as a package-level variable would be
CrossingsDoneKeepsOutput ==
  /\ pc = "crossings"
  /\ k >= Len(samples)
  /\ state' = StateFindHeader
  /\ currentByte' = 0
  /\ bitCount' = 0
  /\ headerCount' = 0
  /\ i' = 1
  /\ pc' = "pass1"
  /\ UNCHANGED <<run, earlier, header, data, pos, samples, err, result, k,
                 prevSample, crossings, decodedBytes>>

\* lines 128-152, and i := 1 of the for statement at line 154
CrossingsDone ==
  /\ pc = "crossings"
  /\ k >= Len(samples)
  /\ state' = StateFindHeader
  /\ decodedBytes' = <<>>
  /\ currentByte' = 0
  /\ bitCount' = 0
  /\ headerCount' = 0
  /\ i' = 1
  /\ pc' = "pass1"
  /\ UNCHANGED <<run, earlier, header, data, pos, samples, err, result, k, prevSample,
                 crossings>>

\* the classification at lines 158-165 and 222-229, for n samples
IsShort(n) == DurLt(n, ShortThreshold)
IsHeader(n) == ~DurLt(n, ShortThreshold) /\ ~DurLt(n, LongThreshold)

\* one iteration of the loop at lines 154-210
FirstPassStep ==
  /\ pc = "pass1"
  /\ i < Len(crossings)
  /\ IF ~(InBounds(crossings, i) /\ InBounds(crossings, i - 1))
     THEN /\ pc' = "panic"
          /\ UNCHANGED <<state, headerCount, currentByte, bitCount, i>>
     ELSE LET durationSamples == At(crossings, i) - At(crossings, i - 1)
              isShort == IsShort(durationSamples)
              isHeader == IsHeader(durationSamples)
          IN  /\ pc' = "pass1"
              /\ i' = i + 1
              /\ CASE state = StateFindHeader ->
                        /\ IF isHeader
                           THEN headerCount' = headerCount + 1 /\ state' = state
                           ELSE IF headerCount > FirstPassThreshold /\ isShort
                                THEN state' = StateFindSync /\ headerCount' = headerCount
                                ELSE headerCount' = 0 /\ state' = state
                        /\ UNCHANGED <<currentByte, bitCount>>
                   [] state = StateFindSync ->
                        IF isShort
                        THEN /\ state' = StateReadData
                             /\ currentByte' = 0
                             /\ bitCount' = 0
                             /\ UNCHANGED headerCount
                        ELSE /\ state' = StateFindHeader
                             /\ headerCount' = 0
                             /\ UNCHANGED <<currentByte, bitCount>>
                   [] OTHER ->     \* case StateReadData: comments only
                        UNCHANGED <<state, headerCount, currentByte, bitCount>>
  /\ UNCHANGED <<run, earlier, header, data, pos, samples, err, result, k, prevSample,
                 crossings, decodedBytes>>

\* the re-initialisation without lines 214-215
SecondPassInitKeepsState ==
  /\ pc = "pass1"
  /\ i >= Len(crossings)
  /\ i' = 1
  /\ pc' = "pass2"
  /\ UNCHANGED <<run, earlier, header, data, pos, samples, err, result, k, prevSample,
                 crossings, decodedBytes, currentByte, bitCount, state, headerCount>>

\* lines 213-215
SecondPassInit ==
  /\ pc = "pass1"
  /\ i >= Len(crossings)
  /\ i' = 1
  /\ state' = StateFindHeader
  /\ headerCount' = 0
  /\ pc' = "pass2"
  /\ UNCHANGED <<run, earlier, header, data, pos, samples, err, result, k, prevSample,
                 crossings, decodedBytes, currentByte, bitCount>>

(***************************************************************************)
(* processSamples: the live loop, lines 217-320.  Each case takes the      *)
(* cursor after the i++ of line 220 and the samples of the interval read   *)
(* before it.                                                              *)
(***************************************************************************)
\* line 234: isHeader || (durationSec > ShortThreshold && durationSec < LongThreshold)
IsHeaderTone(n) ==
  IsHeader(n) \/ (DurGt(n, ShortThreshold) /\ DurLt(n, LongThreshold))

\* the threshold of the first loop (line 177) used in the live loop
EnoughHeaderFirstPass == headerCount > FirstPassThreshold

\* the threshold taken inclusively
EnoughHeaderInclusive == headerCount >= HeaderThreshold

\* line 238
EnoughHeader == headerCount > HeaderThreshold

\* case StateFindHeader, lines 232-257
FindHeaderCase(cur, durationSamples) ==
  IF IsHeaderTone(durationSamples)
  THEN /\ headerCount' = headerCount + 1
       /\ i' = cur
       /\ pc' = "pass2"
       /\ UNCHANGED <<state, currentByte, bitCount, decodedBytes>>
  ELSE IF EnoughHeader /\ IsShort(durationSamples)
       THEN IF cur < Len(crossings)
            THEN IF ~(InBounds(crossings, cur) /\ InBounds(crossings, cur - 1))
                 THEN /\ pc' = "panic"
                      /\ i' = cur
                      /\ UNCHANGED <<state, headerCount, currentByte, bitCount,
                                     decodedBytes>>
                 ELSE LET nextDur == At(crossings, cur) - At(crossings, cur - 1)
                      IN  /\ pc' = "pass2"
                          /\ UNCHANGED decodedBytes
                          /\ IF DurLt(nextDur, ShortThreshold)
                             THEN /\ state' = StateReadData
                                  /\ currentByte' = 0
                                  /\ bitCount' = 0
                                  /\ i' = cur + 1
                                  /\ UNCHANGED headerCount
                             ELSE /\ state' = StateFindHeader
                                  /\ headerCount' = 0
                                  /\ i' = cur
                                  /\ UNCHANGED <<currentByte, bitCount>>
            ELSE /\ i' = cur
                 /\ pc' = "pass2"
                 /\ UNCHANGED <<state, headerCount, currentByte, bitCount,
                                decodedBytes>>
       ELSE /\ headerCount' = 0
            /\ i' = cur
            /\ pc' = "pass2"
            /\ UNCHANGED <<state, currentByte, bitCount, decodedBytes>>

\* lines 278-279
IsZero(dur1, dur2) == DurLt(dur1, ShortThreshold) /\ DurLt(dur2, ShortThreshold)
IsOne(dur1, dur2) ==
  /\ DurGe(dur1, ShortThreshold) /\ DurLt(dur1, LongThreshold)
  /\ DurGe(dur2, ShortThreshold) /\ DurLt(dur2, LongThreshold)

\* end of data tested against the wrong threshold
IsEndOfDataLoose(dur1, dur2) == DurGt(dur1, ShortThreshold) \/ DurGt(dur2, ShortThreshold)

\* line 307, reached when the pair is neither a 0 nor a 1
IsEndOfData(dur1, dur2) == DurGt(dur1, LongThreshold) \/ DurGt(dur2, LongThreshold)

\* currentByte = (currentByte << 1) | bit, on a byte
ShiftIn(byte, bit) == (byte * 2 + bit) % 256

\* a completed byte also sends the demodulator back to the header search
StateAfterPairByteEndsData(dur1, dur2) ==
  IF ~IsZero(dur1, dur2) /\ ~IsOne(dur1, dur2)
  THEN IF IsEndOfData(dur1, dur2) THEN StateFindHeader ELSE state
  ELSE IF bitCount + 1 = ByteBits THEN StateFindHeader ELSE state

\* the state after the pair, lines 281-312
StateAfterPair(dur1, dur2) ==
  IF ~IsZero(dur1, dur2) /\ ~IsOne(dur1, dur2) /\ IsEndOfData(dur1, dur2)
  THEN StateFindHeader
  ELSE state

\* a byte taken as complete one bit late
ByteCompleteLate(count) == count > ByteBits

\* a byte taken as complete one bit early
ByteCompleteEarly(count) == count = ByteBits - 1

\* line 314
ByteComplete(count) == count = ByteBits

\* case StateReadData without the bounds test of lines 260-262
ReadDataCaseNoBreak(cur, durationSamples) ==
  IF ~(InBounds(crossings, cur) /\ InBounds(crossings, cur - 1))
  THEN /\ pc' = "panic"
       /\ i' = cur
       /\ UNCHANGED <<state, headerCount, currentByte, bitCount, decodedBytes>>
  ELSE LET dur1 == durationSamples
           dur2 == At(crossings, cur) - At(crossings, cur - 1)
           isZero == IsZero(dur1, dur2)
           isOne == IsOne(dur1, dur2)
           byte == IF isZero THEN ShiftIn(currentByte, 0)
                   ELSE IF isOne THEN ShiftIn(currentByte, 1)
                   ELSE currentByte
           count == IF isZero \/ isOne THEN bitCount + 1 ELSE bitCount
       IN  /\ i' = cur + 1
           /\ pc' = "pass2"
           /\ state' = StateAfterPair(dur1, dur2)
           /\ headerCount' = IF ~isZero /\ ~isOne /\ IsEndOfData(dur1, dur2)
                             THEN 0 ELSE headerCount
           /\ IF ByteComplete(count)
              THEN /\ decodedBytes' = Append(decodedBytes, byte)
                   /\ currentByte' = 0
                   /\ bitCount' = 0
              ELSE /\ decodedBytes' = decodedBytes
                   /\ currentByte' = byte
                   /\ bitCount' = count

\* case StateReadData, lines 258-318
ReadDataCase(cur, durationSamples) ==
  IF cur >= Len(crossings)
  THEN /\ i' = cur             \* break: leaves the switch
       /\ pc' = "pass2"
       /\ UNCHANGED <<state, headerCount, currentByte, bitCount, decodedBytes>>
  ELSE IF ~(InBounds(crossings, cur) /\ InBounds(crossings, cur - 1))
       THEN /\ pc' = "panic"
            /\ i' = cur
            /\ UNCHANGED <<state, headerCount, currentByte, bitCount, decodedBytes>>
       ELSE LET dur1 == durationSamples
                dur2 == At(crossings, cur) - At(crossings, cur - 1)
                isZero == IsZero(dur1, dur2)
                isOne == IsOne(dur1, dur2)
                byte == IF isZero THEN ShiftIn(currentByte, 0)
                        ELSE IF isOne THEN ShiftIn(currentByte, 1)
                        ELSE currentByte
                count == IF isZero \/ isOne THEN bitCount + 1 ELSE bitCount
            IN  /\ i' = cur + 1
                /\ pc' = "pass2"
                /\ state' = StateAfterPair(dur1, dur2)
                /\ headerCount' = IF ~isZero /\ ~isOne /\ IsEndOfData(dur1, dur2)
                                  THEN 0 ELSE headerCount
                /\ IF ByteComplete(count)
                   THEN /\ decodedBytes' = Append(decodedBytes, byte)
                        /\ currentByte' = 0
                        /\ bitCount' = 0
                   ELSE /\ decodedBytes' = decodedBytes
                        /\ currentByte' = byte
                        /\ bitCount' = count

\* one iteration of the loop at lines 217-320
SecondPassStep ==
  /\ pc = "pass2"
  /\ i < Len(crossings)
  /\ IF ~(InBounds(crossings, i) /\ InBounds(crossings, i - 1))
     THEN /\ pc' = "panic"
          /\ UNCHANGED <<state, headerCount, currentByte, bitCount,
                         decodedBytes, i>>
     ELSE LET durationSamples == At(crossings, i) - At(crossings, i - 1)
              cur == i + 1
          IN  CASE state = StateFindHeader -> FindHeaderCase(cur, durationSamples)
                [] state = StateReadData -> ReadDataCase(cur, durationSamples)
                [] OTHER -> /\ i' = cur
                            /\ pc' = "pass2"
                            /\ UNCHANGED <<state, headerCount, currentByte,
                                           bitCount, decodedBytes>>
  /\ UNCHANGED <<run, earlier, header, data, pos, samples, err, result, k, prevSample,
                 crossings>>

\* return decodedBytes (line 322) and Decode's return of it (line 114)
Return ==
  /\ pc = "pass2"
  /\ i >= Len(crossings)
  /\ result' = decodedBytes
  /\ pc' = "done"
  /\ UNCHANGED <<run, earlier, header, data, pos, samples, err, k, prevSample, crossings,
                 state, decodedBytes, currentByte, bitCount, headerCount, i>>

Next ==
  \/ DecodeFormat
  \/ DecodeUnsupported
  \/ Read8
  \/ Read16
  \/ ProcessSamplesEntry
  \/ CrossingStep
  \/ CrossingsDone
  \/ FirstPassStep
  \/ SecondPassInit
  \/ SecondPassStep
  \/ Return

Spec == Init /\ [][Next]_vars

(***************************************************************************)
(* Two calls: processSamples is called again with the same samples and     *)
(* sample rate once the first call has returned.  Nothing is cleared       *)
(* between the calls but what the code itself declares and assigns.        *)
(***************************************************************************)
SecondCall ==
  /\ pc = "done"
  /\ run = 1
  /\ run' = 2
  /\ earlier' = result
  /\ pc' = "processSamples"
  /\ UNCHANGED <<header, data, pos, samples, err, result, k, prevSample,
                 crossings, state, decodedBytes, currentByte, bitCount,
                 headerCount, i>>

TwiceFiles ==
  SmallFiles \cup TwoBlockFiles \cup LongHeaderFiles
  \cup {File(8, 1, 5000,
              Recording(2, HeaderThreshold + 1,
                        Prefix(<<1, 1>> \o BitPairs(178, 2, 1) \o BitPairs(77, 2, 1), m))) :
          m \in 0..(2 + MaxData)}

InitTwice == InitWith(TwiceFiles)

NextTwice == Next \/ SecondCall

SpecTwice == InitTwice /\ [][NextTwice]_vars

(***************************************************************************)
(* The loop of lines 217-320 run on its own over the same crossings, from  *)
(* the values lines 137-140 and 213-215 give its variables, after the      *)
(* whole function has returned; the earlier return value is kept.          *)
(***************************************************************************)
SecondPassAlone ==
  /\ pc = "done"
  /\ run = 1
  /\ run' = 3
  /\ earlier' = result
  /\ i' = 1
  /\ state' = StateFindHeader
  /\ headerCount' = 0
  /\ decodedBytes' = <<>>
  /\ currentByte' = 0
  /\ bitCount' = 0
  /\ pc' = "pass2"
  /\ UNCHANGED <<header, data, pos, samples, err, result, k, prevSample, crossings>>

NextAlone == Next \/ SecondPassAlone

SpecAlone == InitTwice /\ [][NextAlone]_vars

(***************************************************************************)
(* The program runs to its end: no step is postponed for ever.             *)
(***************************************************************************)
SpecLive == InitTwice /\ [][Next]_vars /\ WF_vars(Next)

(***************************************************************************)
(* Vocabulary of the specification                                         *)
(***************************************************************************)
\* Tone categories of a half-cycle of n samples: Short below 350 us,
\* Medium from 350 us up to but not including 600 us, Long from 600 us
Short(n) == n * 1000000 < ShortThreshold * header.SampleRate
Long(n) == n * 1000000 >= LongThreshold * header.SampleRate
Medium(n) == ~Short(n) /\ ~Long(n)

\* the j-th interval between consecutive crossings, j in 1..NumIntervals;
\* the live loop reads interval i at cursor i
NumIntervals == IF crossings = <<>> THEN 0 ELSE Len(crossings) - 1
Interval(j) == crossings[j + 1] - crossings[j]

InLiveLoop == pc = "pass2" /\ i < Len(crossings)
Exhausted == pc = "done"

\* intervals 1..h are header tone, h+1 and h+2 are the sync pair, and the
\* rest are pairs of equal category, Medium or Short, with at most one
\* unpaired interval (of any category) at the end
NumPairs(h) == (NumIntervals - h - 2) \div 2
PairFirst(h, t) == Interval(h + 2 * t + 1)
PairSecond(h, t) == Interval(h + 2 * t + 2)
SyncedTape(h) ==
  /\ h > HeaderThreshold
  /\ NumIntervals >= h + 2
  /\ \A j \in 1..h : Medium(Interval(j)) \/ Long(Interval(j))
  /\ Short(Interval(h + 1)) /\ Short(Interval(h + 2))
  /\ \A t \in 1..NumPairs(h) :
       \/ Medium(PairFirst(h, t)) /\ Medium(PairSecond(h, t))
       \/ Short(PairFirst(h, t)) /\ Short(PairSecond(h, t))

\* the bit of pair t and the byte of pairs 8g-7 .. 8g, first bit highest
PairBit(h, t) == IF Medium(PairFirst(h, t)) THEN 1 ELSE 0
TapeByte(h, g) ==
  LET v[t \in 0..ByteBits] ==
        IF t = 0 THEN 0 ELSE 2 * v[t - 1] + PairBit(h, ByteBits * (g - 1) + t)
  IN  v[ByteBits]

\* a header run, a sync pair and the 16 intervals of one byte
OneByteHeader == NumIntervals - 2 - 2 * ByteBits
OneByteTape == SyncedTape(OneByteHeader)
OneByte == TapeByte(OneByteHeader, 1)

\* the Medium/Long intervals that end right before interval j
RunBefore(j) ==
  LET breaks == {m \in 1..(j - 1) : Short(Interval(m))}
      last == IF breaks = {} THEN 0 ELSE CHOOSE m \in breaks : \A x \in breaks : x <= m
  IN  j - 1 - last

(***************************************************************************)
(* Claims                                                                  *)
(***************************************************************************)

\* C1: a header run of at least 51 Medium or Long intervals, a Short,Short
\* sync pair and the 16 intervals of byte b (Medium,Medium for 1,
\* Short,Short for 0, high bit first) decode to exactly the byte b.
C1_OneByteDecoded ==
  Exhausted /\ OneByteTape => result = <<OneByte>>

\* C2 as stated: after that tape the demodulator is back in FindHeader when
\* the crossings are exhausted.
C2_BackInFindHeader ==
  Exhausted /\ OneByteTape => state = StateFindHeader

\* C2 amended: when that tape's byte has been emitted the demodulator is
\* still in ReadData when the crossings are exhausted.
C2_StaysInReadData ==
  Exhausted /\ OneByteTape /\ result # <<>> => state = StateReadData

C2_Witness ==
  /\ Exhausted
  /\ OneByteTape
  /\ OneByte = 178
  /\ result = <<178>>
  /\ state = StateReadData

\* C3: in ReadData a pair with a Long duration (600 us or more) ends the
\* data: the state becomes FindHeader, the header counter 0, and nothing is
\* emitted.
C3_LongPairEndsData ==
  [][(/\ InLiveLoop
      /\ state = StateReadData
      /\ i + 1 < Len(crossings)
      /\ Long(Interval(i)) \/ Long(Interval(i + 1)))
     => (/\ state' = StateFindHeader
         /\ headerCount' = 0
         /\ decodedBytes' = decodedBytes)]_vars

\* C4: in FindHeader every Medium or Long interval adds exactly one to the
\* header counter and leaves the state FindHeader.
C4_HeaderToneCounted ==
  [][(/\ InLiveLoop
      /\ state = StateFindHeader
      /\ Medium(Interval(i)) \/ Long(Interval(i)))
     => (/\ headerCount' = headerCount + 1
         /\ state' = StateFindHeader)]_vars

\* C5: a Short interval read in FindHeader while the header counter is at
\* most 50, or after a run of at most 50 Medium/Long intervals, confirms no
\* sync: the state stays FindHeader, the header counter becomes 0, no byte
\* is emitted and only that interval is consumed.
C5_NoSyncAtOrBelowThreshold ==
  [][(/\ InLiveLoop
      /\ state = StateFindHeader
      /\ Short(Interval(i))
      /\ headerCount <= HeaderThreshold \/ RunBefore(i) <= HeaderThreshold)
     => (/\ state' = StateFindHeader
         /\ headerCount' = 0
         /\ decodedBytes' = decodedBytes
         /\ i' = i + 1)]_vars

\* the Short after a run of exactly 50 has been read, the next is Short too
C5_Witness ==
  /\ InLiveLoop
  /\ i >= 2
  /\ state = StateFindHeader
  /\ headerCount = 0
  /\ Short(Interval(i - 1))
  /\ RunBefore(i - 1) = HeaderThreshold
  /\ Short(Interval(i))

\* C6: a sample stream with fewer than 2 samples yields an empty crossing
\* sequence, and the crossing pass does not fail on it.
C6_ShortStreamNoCrossings ==
  (pc \in {"crossings", "pass1", "pass2", "done", "panic"} /\ Len(samples) < 2)
    => (pc # "panic" /\ crossings = <<>>)

\* C7: once Decode has handed the samples to processSamples no index is out
\* of range: the run never aborts.
C7_NeverAborts == pc # "panic"

\* C8: truncated input emits no partial byte.  A byte is appended only by
\* the step that reads the eighth valid bit of a group from a complete pair,
\* the return hands back exactly the bytes appended so far, and when the
\* crossings of a synced tape are exhausted in ReadData the output is
\* exactly the bytes of its complete groups of 8 pairs, the bits of the
\* incomplete group staying in the accumulator.
ValidPairAtCursor ==
  /\ i + 1 < Len(crossings)
  /\ \/ Short(Interval(i)) /\ Short(Interval(i + 1))
     \/ Medium(Interval(i)) /\ Medium(Interval(i + 1))
C8_TruncatedKeepsCompleteBytes ==
  /\ [](\A h \in (HeaderThreshold + 1)..(NumIntervals - 2) :
          (Exhausted /\ state = StateReadData /\ SyncedTape(h))
            => (/\ result = [g \in 1..(NumPairs(h) \div ByteBits) |-> TapeByte(h, g)]
                /\ bitCount = NumPairs(h) % ByteBits
                /\ Len(result) * ByteBits + bitCount = NumPairs(h)))
  /\ [][/\ decodedBytes' # decodedBytes
           => (/\ InLiveLoop /\ state = StateReadData
               /\ bitCount = ByteBits - 1
               /\ ValidPairAtCursor
               /\ Len(decodedBytes') = Len(decodedBytes) + 1
               /\ SubSeq(decodedBytes', 1, Len(decodedBytes)) = decodedBytes
               /\ bitCount' = 0)
        /\ pc' = "done" /\ pc # "done"
           => (result' = decodedBytes /\ decodedBytes' = decodedBytes)]_vars

\* one byte and one more bit read, one unpaired interval left over
C8_Witness ==
  /\ Exhausted
  /\ state = StateReadData
  /\ \E h \in (HeaderThreshold + 1)..(NumIntervals - 2) :
       SyncedTape(h) /\ (NumIntervals - h) % 2 = 1
  /\ bitCount = 1
  /\ Len(result) = 1

\* C9: with a sample width other than 8 or 16 Decode fails with the
\* unsupported-format error, returns no bytes, and neither reads samples
\* nor runs the crossing detection or the demodulation.
C9_UnsupportedWidthFails ==
  header.BitsPerSample \notin {8, 16}
    => (/\ pc \in {"Decode", "error"}
        /\ pc = "error" => err = "unsupported"
        /\ result = <<>>
        /\ samples = <<>> /\ crossings = <<>> /\ decodedBytes = <<>>
        /\ k = 0 /\ i = 0)

C9_Witness ==
  /\ header.BitsPerSample = 24
  /\ Len(data) >= 2
  /\ pc = "error"
  /\ err = "unsupported"

\* C10: for a stream of at least 2 samples the crossings are exactly the
\* indices j >= 1 whose sample differs in sign from sample j-1 (0 counted as
\* non-negative), in strictly increasing order; for a square wave whose
\* half-period is half samples they are exactly half samples apart.
NonNegative(x) == x >= 0
SignDiffers(j) ==
  j >= 1 /\ NonNegative(At(samples, j)) # NonNegative(At(samples, j - 1))
IsSquareWave(half) ==
  \A j \in 0..(Len(samples) - 1) :
    NonNegative(At(samples, j)) =
      (NonNegative(At(samples, 0)) = ((j \div half) % 2 = 0))
C10_CrossingsAreSignChanges ==
  (pc = "crossings" /\ k = Len(samples) /\ Len(samples) >= 2)
    => (/\ \A j \in 0..(Len(samples) - 1) :
             SignDiffers(j) <=> (\E c \in 1..Len(crossings) : crossings[c] = j)
        /\ \A c \in 1..Len(crossings) : crossings[c] \in 1..(Len(samples) - 1)
        /\ \A c \in 1..(Len(crossings) - 1) : crossings[c] < crossings[c + 1]
        /\ \A half \in 1..MaxHalf :
             IsSquareWave(half) =>
               \A c \in 1..(Len(crossings) - 1) :
                 crossings[c + 1] - crossings[c] = half)

\* a stream with a zero sample right after a negative one, fully scanned
C10_Witness ==
  /\ pc = "crossings"
  /\ k = Len(samples)
  /\ Len(samples) >= 3
  /\ At(samples, 0) < 0 /\ At(samples, 1) = 0 /\ At(samples, 2) < 0
  /\ crossings = <<1, 2>>

\* a 16-bit square wave of 1024 values, fully scanned
C10_SquareWitness ==
  /\ pc = "crossings"
  /\ k = Len(samples)
  /\ Len(samples) = BufLen
  /\ IsSquareWave(32)
  /\ Len(crossings) = 31
  /\ crossings[1] = 32

\* C11: no byte is appended before a sync marker has been confirmed.  Every
\* append happens in ReadData of the live loop; the live loop enters
\* ReadData only by consuming a Short,Short pair while the header counter
\* exceeds 50; and a tape with no Short,Short pair after a run of more than
\* 50 Medium/Long intervals decodes to the empty output, with no error.
SyncAt(j) ==
  Short(Interval(j)) /\ Short(Interval(j + 1)) /\ RunBefore(j) > HeaderThreshold
NoSyncInTape == \A j \in 1..(NumIntervals - 1) : ~SyncAt(j)
C11_NoByteBeforeSync ==
  /\ [][/\ decodedBytes' # decodedBytes
           => (pc = "pass2" /\ state = StateReadData)
        /\ (pc = "pass2" /\ state # StateReadData /\ state' = StateReadData)
           => (/\ headerCount > HeaderThreshold
               /\ i + 1 < Len(crossings)
               /\ Short(Interval(i)) /\ Short(Interval(i + 1))
               /\ i' = i + 2)]_vars
  /\ []((Exhausted /\ NoSyncInTape) => (result = <<>> /\ err = "none"))

\* a Short,Short pair after a run of exactly 50, and nothing decoded
C11_Witness ==
  /\ Exhausted
  /\ NoSyncInTape
  /\ \E j \in 1..(NumIntervals - 1) :
       Short(Interval(j)) /\ Short(Interval(j + 1)) /\ RunBefore(j) = HeaderThreshold
  /\ result = <<>>
  /\ err = "none"

\* C12: with more than one channel, the j-th sample of the stream is the
\* normalized channel-0 value of frame j, for both sample widths.
Normalized(raw) == IF header.BitsPerSample = 8 THEN Norm8(raw) ELSE Norm16(raw)
ReadingDone == pc = "processSamples"
C12_ChannelZeroOnly ==
  (ReadingDone /\ header.NumChannels > 1)
    => \A j \in 1..Len(samples) :
         /\ (j - 1) * header.NumChannels + 1 <= Len(data)
         /\ samples[j] = Normalized(data[(j - 1) * header.NumChannels + 1])

\* C13: the stream holds exactly one sample per complete frame of the data
\* region, for both sample widths.
C13_OneSamplePerFrame ==
  ReadingDone => Len(samples) = Len(data) \div header.NumChannels

\* C14: a second call of processSamples on the same samples and sample
\* rate returns the same bytes as the first, and starts its live loop from
\* the same state: nothing of the first call is left.
C14_SecondCallSameOutput ==
  /\ (pc = "done" /\ run = 2) => result = earlier
  /\ (pc = "pass2" /\ run = 2 /\ i = 1)
       => (/\ state = StateFindHeader
           /\ headerCount = 0
           /\ currentByte = 0
           /\ bitCount = 0
           /\ decodedBytes = <<>>)

\* the second call has returned the byte the first one returned
C14_Witness ==
  /\ pc = "done"
  /\ run = 2
  /\ earlier = <<178>>
  /\ result = <<178>>

\* C15: at the start of every iteration of the live loop the bit count is in
\* 0..7 and the byte in progress holds no more than that many bits.  A valid
\* pair read in ReadData shifts its bit in; the eighth one appends exactly
\* one byte and leaves byte and count 0 for the next iteration.  No other
\* iteration appends a byte or raises the count.
BitAtCursor == IF Medium(Interval(i)) THEN 1 ELSE 0
C15_BitAccumulator ==
  /\ [](pc = "pass2"
          => (/\ bitCount \in 0..(ByteBits - 1)
              /\ currentByte \in 0..(2 ^ bitCount - 1)))
  /\ [][/\ (InLiveLoop /\ state = StateReadData /\ ValidPairAtCursor)
           => IF bitCount = ByteBits - 1
              THEN /\ decodedBytes' = Append(decodedBytes, 2 * currentByte + BitAtCursor)
                   /\ currentByte' = 0
                   /\ bitCount' = 0
              ELSE /\ decodedBytes' = decodedBytes
                   /\ currentByte' = 2 * currentByte + BitAtCursor
                   /\ bitCount' = bitCount + 1
        /\ (InLiveLoop /\ ~(state = StateReadData /\ ValidPairAtCursor))
           => (/\ decodedBytes' = decodedBytes
               /\ bitCount' \in {bitCount, 0}
               /\ currentByte' \in {currentByte, 0})]_vars

\* a byte has just been completed and more intervals follow
C15_Witness ==
  /\ InLiveLoop
  /\ state = StateReadData
  /\ decodedBytes = <<178>>
  /\ bitCount = 0
  /\ currentByte = 0

\* C16: in ReadData a Short,Medium or Medium,Short pair consumes exactly two
\* intervals and changes nothing else: state, byte in progress, bit count,
\* header counter and output keep their values.
MismatchAtCursor ==
  /\ i + 1 < Len(crossings)
  /\ \/ Short(Interval(i)) /\ Medium(Interval(i + 1))
     \/ Medium(Interval(i)) /\ Short(Interval(i + 1))
C16_MismatchOnlyAdvances ==
  [][(InLiveLoop /\ state = StateReadData /\ MismatchAtCursor)
       => (/\ i' = i + 2
           /\ UNCHANGED <<state, currentByte, bitCount, headerCount, decodedBytes>>)]_vars

\* a Short,Medium pair has just been discarded after one bit was read, and
\* more intervals follow
C16_Witness ==
  /\ InLiveLoop
  /\ state = StateReadData
  /\ i >= 3
  /\ Short(Interval(i - 2))
  /\ Medium(Interval(i - 1))
  /\ bitCount = 1
  /\ currentByte = 1

\* C17: in FindHeader, when a Short interval is read with the header counter
\* above 50 and a next interval exists: if the next interval is Short, both
\* are consumed, byte in progress and bit count become 0 and the state
\* becomes ReadData; otherwise only the first is consumed, the header counter
\* becomes 0 and the state stays FindHeader.  An interval read in FindHeader
\* with the header counter at 0 is an ordinary one: it is consumed alone, it
\* counts as header tone or not, and the state stays FindHeader.
SyncCandidateAtCursor ==
  /\ InLiveLoop
  /\ state = StateFindHeader
  /\ headerCount > HeaderThreshold
  /\ Short(Interval(i))
  /\ i + 1 < Len(crossings)
C17_SyncLookahead ==
  [][/\ SyncCandidateAtCursor
          => IF Short(Interval(i + 1))
             THEN /\ i' = i + 2
                  /\ state' = StateReadData
                  /\ currentByte' = 0
                  /\ bitCount' = 0
                  /\ UNCHANGED <<headerCount, decodedBytes>>
             ELSE /\ i' = i + 1
                  /\ state' = StateFindHeader
                  /\ headerCount' = 0
                  /\ UNCHANGED <<currentByte, bitCount, decodedBytes>>
     /\ (InLiveLoop /\ state = StateFindHeader /\ headerCount = 0)
          => (/\ i' = i + 1
              /\ state' = StateFindHeader
              /\ headerCount' \in {0, 1}
              /\ UNCHANGED <<currentByte, bitCount, decodedBytes>>)]_vars

\* the sync pair of a second block has just been consumed: the bit left over
\* from the first block is gone and the cursor is at the first data pair
C17_Witness ==
  /\ InLiveLoop
  /\ state = StateReadData
  /\ i = 2 * (HeaderThreshold + 1) + 9
  /\ Short(Interval(i - 2))
  /\ Short(Interval(i - 1))
  /\ Long(Interval(HeaderThreshold + 6))
  /\ headerCount = HeaderThreshold + 1
  /\ currentByte = 0
  /\ bitCount = 0

\* C18: the first loop has no effect on the result.  While it runs, byte in
\* progress, bit count and output keep their initial values; the live loop
\* starts in FindHeader with header counter, byte in progress and bit count 0
\* and an empty output; and the live loop run on its own from those values
\* over the same crossings returns what the whole function returned.
LongLeadIn ==
  /\ NumIntervals >= FirstPassThreshold + 3
  /\ \A j \in 1..(FirstPassThreshold + 1) : Long(Interval(j))
  /\ Short(Interval(FirstPassThreshold + 2))
  /\ Short(Interval(FirstPassThreshold + 3))
C18_FirstPassHasNoEffect ==
  /\ pc = "pass1"
       => (currentByte = 0 /\ bitCount = 0 /\ decodedBytes = <<>>)
  /\ (pc = "pass2" /\ i = 1)
       => (/\ state = StateFindHeader
           /\ headerCount = 0
           /\ currentByte = 0
           /\ bitCount = 0
           /\ decodedBytes = <<>>)
  /\ (pc = "done" /\ run = 3) => result = earlier

\* the first loop ended in ReadData with its header counter above 100, and
\* the live loop on its own returned the byte the whole function returned
C18_Witness ==
  /\ pc = "done"
  /\ run = 3
  /\ LongLeadIn
  /\ earlier = <<178>>
  /\ result = <<178>>

\* C19 (as stated): for a crossing sequence of length n the live loop ends
\* after at most n-1 iterations.  Every iteration raises the cursor, which
\* starts at 1, by at least 1, so the loop has run at most i-1 times.
C19_AtMostLenMinusOne ==
  (pc = "pass2" /\ i >= Len(crossings)) => i - 1 <= Len(crossings) - 1

\* C19 (amended): the live loop always terminates and only moves forward.
\* Every iteration raises the cursor by 1 or 2 and leaves the crossings as
\* they are; the loop is left only for the return and only when the cursor
\* has reached the end of the crossings; a loop that has begun always gets
\* to the return.  Over a non-empty crossing sequence of length n the cursor
\* never passes n, so the loop runs at most n-1 times; over an empty one it
\* does not run at all.
C19_LiveLoopTerminates ==
  /\ [][pc = "pass2"
          => (/\ pc' \in {"pass2", "done"}
              /\ crossings' = crossings
              /\ IF InLiveLoop
                 THEN pc' = "pass2" /\ i' \in {i + 1, i + 2}
                 ELSE pc' = "done" /\ i' = i)]_vars
  /\ [](pc = "pass2"
          => (/\ i >= 1
              /\ crossings # <<>> => i <= Len(crossings)
              /\ crossings = <<>> => i = 1))
  /\ (pc = "pass2") ~> (pc = "done")

\* the run has ended with the cursor at the end of the crossings, after
\* steps of one interval (header) and of two (sync and data pairs)
C19_Witness ==
  /\ pc = "done"
  /\ i = Len(crossings)
  /\ i > HeaderThreshold + 2 * ByteBits
  /\ state = StateReadData
  /\ Len(result) = 1

\* C20: during the live loop the state is FindHeader or ReadData, never
\* FindSync; it starts as FindHeader; and it changes only from FindHeader to
\* ReadData, on a Short pair read with the header counter above 50, and from
\* ReadData to FindHeader, on a pair that holds a Long interval.
C20_LivePassStates ==
  /\ [](pc = "pass2" => state \in {StateFindHeader, StateReadData})
  /\ []((pc = "pass2" /\ i = 1) => state = StateFindHeader)
  /\ [][(pc = "pass2" /\ state' # state)
          => (/\ InLiveLoop
              /\ i + 1 < Len(crossings)
              /\ i' = i + 2
              /\ \/ /\ state = StateFindHeader
                    /\ state' = StateReadData
                    /\ headerCount > HeaderThreshold
                    /\ Short(Interval(i))
                    /\ Short(Interval(i + 1))
                 \/ /\ state = StateReadData
                    /\ state' = StateFindHeader
                    /\ Long(Interval(i)) \/ Long(Interval(i + 1)))]_vars

\* both transitions have been taken: a sync, one bit, then a Long pair that
\* put the state back to FindHeader with the bit still in the accumulator
C20_Witness ==
  /\ InLiveLoop
  /\ state = StateFindHeader
  /\ i = HeaderThreshold + 8
  /\ Long(Interval(i - 2))
  /\ Long(Interval(i - 1))
  /\ headerCount = 0
  /\ bitCount = 1

====
